---- MODULE Spec2Model ----
(***************************************************************************)
(* Sequential Bayesian frequency estimation (estimators.py).               *)
(*                                                                         *)
(* Units.  Frequencies are integers in units of 0.1 1/s, so omega_min is 1 *)
(* and omega_max is 19.  Times are rationals in units of pi seconds, so    *)
(* t_max is 4.  Floating-point numbers are modelled as exact rationals     *)
(* <<n, d>> in lowest terms with d > 0, together with the three special    *)
(* values the float format has: NaN is <<0, 0>>, +inf is <<1, 0>> and -inf *)
(* is <<-1, 0>>.  The cosine is evaluated exactly: every frequency and     *)
(* time the model draws keeps the phase omega*t on a multiple of pi/3 or   *)
(* pi/2, where the cosine is rational.                                     *)
(***************************************************************************)
EXTENDS Integers, Sequences, FiniteSets, TLC

\* ------------------------------------------------------------------------
\* Exact arithmetic on the values a float64 array element can hold.

Abs(x) == IF x < 0 THEN -x ELSE x

RECURSIVE Gcd(_, _)
Gcd(a, b) == IF b = 0 THEN a ELSE Gcd(b, a % b)

Sign(x) == IF x > 0 THEN 1 ELSE IF x < 0 THEN -1 ELSE 0

\* n / d as a float: in lowest terms; x/0 is +-inf and 0/0 is NaN.
R(n, d) ==
    IF d = 0 THEN <<Sign(n), 0>>
    ELSE LET g == Gcd(Abs(n), Abs(d))
             s == IF d < 0 THEN -1 ELSE 1
         IN  <<(s * n) \div g, (s * d) \div g>>

NaN == <<0, 0>>
Zero == <<0, 1>>
One == <<1, 1>>

IsNaN(x) == x[2] = 0 /\ x[1] = 0
IsFinite(x) == x[2] # 0

RAdd(x, y) ==
    IF IsFinite(x) /\ IsFinite(y)
    THEN LET g == Gcd(x[2], y[2])
         IN  R(x[1] * (y[2] \div g) + y[1] * (x[2] \div g), (x[2] \div g) * y[2])
    ELSE IF IsNaN(x) \/ IsNaN(y) THEN NaN
    ELSE IF IsFinite(x) THEN y
    ELSE IF IsFinite(y) THEN x
    ELSE IF x[1] = y[1] THEN x ELSE NaN

RNeg(x) == <<-x[1], x[2]>>

RSub(x, y) == RAdd(x, RNeg(y))

\* Factors common to a numerator and the other denominator are cancelled
\* before multiplying, so that intermediate products stay small.
RMul(x, y) ==
    IF IsFinite(x) /\ IsFinite(y)
    THEN LET g1 == Gcd(Abs(x[1]), y[2])
             g2 == Gcd(Abs(y[1]), x[2])
         IN  R((x[1] \div g1) * (y[1] \div g2), (x[2] \div g2) * (y[2] \div g1))
    ELSE IF IsNaN(x) \/ IsNaN(y) THEN NaN
    ELSE <<Sign(x[1]) * Sign(y[1]), 0>>

RDiv(x, y) ==
    IF IsFinite(x) /\ IsFinite(y)
    THEN IF y[1] = 0 THEN <<Sign(x[1]), 0>> ELSE RMul(x, <<Sign(y[1]) * y[2], Abs(y[1])>>)
    ELSE IF IsNaN(x) \/ IsNaN(y) THEN NaN
    ELSE IF IsFinite(y) THEN <<x[1] * (IF y[1] < 0 THEN -1 ELSE 1), 0>>
    ELSE IF IsFinite(x) THEN Zero
    ELSE NaN

\* a/b < c/d for b, d > 0, compared by integer parts and then by the
\* reciprocals of the remainders, so that no product is formed.
RECURSIVE FracLess(_, _, _, _)
FracLess(a, b, c, d) ==
    IF a \div b # c \div d THEN a \div b < c \div d
    ELSE IF c % d = 0 THEN FALSE
    ELSE IF a % b = 0 THEN TRUE
    ELSE FracLess(d, c % d, b, a % b)

\* x < y on floats: false when either side is NaN.
RLess(x, y) ==
    /\ ~IsNaN(x)
    /\ ~IsNaN(y)
    /\ IF x[2] = 0 \/ y[2] = 0
       THEN IF x[2] = 0 /\ y[2] = 0 THEN x[1] < y[1]
            ELSE IF x[2] = 0 THEN x[1] < 0 ELSE y[1] > 0
       ELSE FracLess(x[1], x[2], y[1], y[2])

RLeq(x, y) == ~IsNaN(x) /\ ~IsNaN(y) /\ ~RLess(y, x)

RInt(k) == <<k, 1>>

\* The only element of a one-element set: lets a value be computed once
\* and then used several times.
The(S) == CHOOSE x \in S : TRUE

\* np.sum of an array.
RECURSIVE RSum(_)
RSum(s) == IF s = <<>> THEN Zero ELSE RAdd(Head(s), RSum(Tail(s)))

\* np.sum(a * b) for two arrays of the same length.
RECURSIVE RDot(_, _)
RDot(a, b) ==
    IF a = <<>> THEN Zero ELSE RAdd(RMul(Head(a), Head(b)), RDot(Tail(a), Tail(b)))

\* 2*cos(p*pi/6), at the phases where the cosine is rational.
TwoCos(p) ==
    CASE p % 12 = 0 -> 2
      [] p % 12 = 2 -> 1
      [] p % 12 = 3 -> 0
      [] p % 12 = 4 -> -1
      [] p % 12 = 6 -> -2
      [] p % 12 = 8 -> -1
      [] p % 12 = 9 -> 0
      [] p % 12 = 10 -> 1

\* The phase omega*t in units of pi/6: omega in 0.1 1/s, t = <<n, d>> in pi s.
\* A phase off the pi/6 lattice is mapped to 1, where TwoCos is undefined.
Phase(t, omega) ==
    IF (3 * omega * t[1]) % (5 * t[2]) = 0 THEN (3 * omega * t[1]) \div (5 * t[2]) ELSE 1

\* ------------------------------------------------------------------------
\* Constants and the physical model.

omega_min == 1
omega_max == 19
v_0 == 0
t_max == <<4, 1>>

\* exp(-0.5 * v_0 * t): v_0 is 0, so the factor is exp(0) = 1 at every t.
Decoherence(t) == IF v_0 = 0 THEN 1 ELSE 0

\* 0.5 * (1 - exp(-0.5 v_0 t) cos(omega t))
prob_excited(t, omega) == R(2 - Decoherence(t) * TwoCos(Phase(t, omega)), 4)

\* dist / np.sum(dist), element by element: 0/0 is NaN.
normalize(dist) == The({ [k \in DOMAIN dist |-> RDiv(dist[k], total)] : total \in {RSum(dist)} })

\* clip_omega with the lower bound forgotten.
clip_omega_upper_only(x) == IF x > omega_max THEN omega_max ELSE x

clip_omega(x) == IF x < omega_min THEN omega_min ELSE IF x > omega_max THEN omega_max ELSE x

\* omega + np.random.normal(0, sqrt(v1)): ONE scalar draw, added to every
\* element when omega is an array, then clipped.
perturb_omega(omegas, draw) == [i \in DOMAIN omegas |-> clip_omega(omegas[i] + draw)]

\* The outcomes np.random.binomial(1, p) can return.
Bernoulli(p) == IF p = Zero THEN {0} ELSE IF p = One THEN {1} ELSE {0, 1}

measure(omega, t) == Bernoulli(prob_excited(t, omega))

\* The likelihood of the other outcome.
likelihood_of_other_outcome(omega, t, m) ==
    LET pe == prob_excited(t, omega)
    IN  RAdd(RMul(pe, RInt(1 - m)), RMul(RSub(One, pe), RInt(m)))

likelihood(omega, t, m) ==
    LET pe == prob_excited(t, omega)
    IN  RAdd(RMul(pe, RInt(m)), RMul(RSub(One, pe), RInt(1 - m)))

\* dist * likelihood(omegas, t, m), element by element.
MulLikelihood(dist, omegas, t, m) ==
    [i \in DOMAIN dist |-> RMul(dist[i], likelihood(omegas[i], t, m))]

\* ParticleDist1D.mean_omega
mean_omega(omegas, dist) == RDot(dist, [i \in DOMAIN omegas |-> RInt(omegas[i])])

\* ------------------------------------------------------------------------
\* GridDist1D.wait_u: the heat equation in the cosine basis.
\*
\* scipy's dct (type 2) and idct (type 3) are unnormalised:
\*   X[n] = 2 * SUM_k x[k] cos(pi (2k+1) n / 2N)
\*   y[j] = X[0] + 2 * SUM_{n>=1} X[n] cos(pi (2j+1) n / 2N)
\* so idct(X * exp(-fact n^2)) / (2N) is, with 2 cos a cos b = cos(a+b) + cos(a-b),
\*   y[j] = (1/N) SUM_k x[k] (1 + SUM_{n=1..N-1} exp(-fact n^2)
\*                              (cos(pi n (j+k+1)/N) + cos(pi n (j-k)/N)))
\* for 0-based j, k.  The cosines are rational for N <= 3.

\* exp(-fact * n^2) with fact = v1 pi^2 / (2 diff^2).  For a grid posterior
\* v1 is counted in units of 2 ln(2) diff^2 / pi^2, so that fact = v1 ln 2.
heat_factor(v1, n) == R(1, 2 ^ (v1 * n * n))

\* N times the weight of x[k] in y[j] (1-based j, k).
RECURSIVE heat_modes(_, _, _, _, _)
heat_modes(N, j, k, v1, n) ==
    IF n = 0 THEN One
    ELSE RAdd(heat_modes(N, j, k, v1, n - 1),
              RMul(heat_factor(v1, n),
                   R(TwoCos((6 * n * (j + k - 1)) \div N)
                       + TwoCos((6 * n * Abs(j - k)) \div N), 2)))

heat_kernel(N, j, k, v1) == RDiv(heat_modes(N, j, k, v1, N - 1), RInt(N))

GridDist1D_diffuse(dist, v1) ==
    LET N == Len(dist)
    IN  [j \in 1..N |-> RSum([k \in 1..N |-> RMul(heat_kernel(N, j, k, v1), dist[k])])]

\* ------------------------------------------------------------------------
\* DynamicDist1D: class constants and pure helpers.

n_ess_limit == R(1, 2)
a == R(1, 10)
b == R(6, 5)

\* np.cov(omegas, ddof=0, aweights=dist): SUM w (x - avg)^2 / SUM w with
\* avg = SUM w x / SUM w.
cov(omegas, dist) ==
    The({ RDiv(RDot(dist, [k \in DOMAIN omegas |->
                              RMul(RSub(RInt(omegas[k]), avg), RSub(RInt(omegas[k]), avg))]),
               w_sum)
          : avg \in {RDiv(RDot(dist, [k \in DOMAIN omegas |-> RInt(omegas[k])]), RSum(dist))},
            w_sum \in {RSum(dist)} })

\* 1 / np.sum(dist**2)
n_ess(dist) == RDiv(One, RDot(dist, dist))

\* np.maximum(x, y) in place of max: NaN propagates.
np_maximum(x, y) == IF IsNaN(x) \/ IsNaN(y) THEN NaN ELSE IF RLess(x, y) THEN y ELSE x

\* Python's max(x, y) of two arguments: y if y > x, else x (so x when y is NaN).
PyMax(x, y) == IF RLess(x, y) THEN y ELSE x

\* np.ones(size) without the division.
ones(size) == [k \in 1..size |-> One]

\* np.ones(size) / size
uniform(size) == [i \in 1..size |-> R(1, size)]

\* omegas[idx] (fancy indexing: a new array).
take(arr, idx) == [i \in DOMAIN idx |-> arr[idx[i]]]

\* ------------------------------------------------------------------------
\* util.deterministic_sample(size, dist): the weighted resampler.  Its
\* contract: size indices into dist, index i taken floor(size*dist[i]) or
\* ceil(size*dist[i]) times (low variance), in increasing order.

RECURSIVE repeat(_, _)
repeat(x, n) == IF n <= 0 THEN <<>> ELSE <<x>> \o repeat(x, n - 1)

RECURSIVE expand_counts(_, _)
expand_counts(c, i) ==
    IF i > Len(c) THEN <<>> ELSE repeat(i, c[i]) \o expand_counts(c, i + 1)

RECURSIVE sum_ints(_)
sum_ints(s) == IF s = <<>> THEN 0 ELSE Head(s) + sum_ints(Tail(s))

floor_times(n, w) == (n * w[1]) \div w[2]

ceil_times(n, w) == floor_times(n, w) + (IF (n * w[1]) % w[2] = 0 THEN 0 ELSE 1)

deterministic_sample(size, dist) ==
    { expand_counts(c, 1) :
        c \in { c \in [DOMAIN dist -> 0..size] :
                  /\ sum_ints(c) = size
                  /\ \A i \in DOMAIN dist :
                        /\ floor_times(size, dist[i]) <= c[i]
                        /\ c[i] <= ceil_times(size, dist[i]) } }

\* ------------------------------------------------------------------------
\* Bounds of the model.

\* Normal draws of perturb_omega range over 0.6 * (-MaxDraw..MaxDraw).
MaxDraw == 1
\* DynamicDist1D sizes range up to MaxParticles.
MaxParticles == 3
\* Public calls made on one posterior.
MaxOps == 2
\* Length of a ground-truth trajectory.
MaxLen == 2
\* search_depth of a TwoPointChooser ranges over 0..MaxDepth.
MaxDepth == 3

\* ------------------------------------------------------------------------
\* State.
\*
\* Arrays live on a heap, as numpy arrays do: a field of a posterior holds the
\* address of an array, `x *= y` writes through the address (in place) and
\* `x = f(x)` binds the field to a new array.  <<"nodes", 0>> and
\* <<"prior", 0>> are the caller's arrays handed to the constructors;
\* <<"omegas", tr>> and <<"dist", tr>> are the arrays posterior tr allocates.

VARIABLES heap, post, last, nops, traj,
          pc, chooser, choice, omega_list, i, t, m, t_hist, log

vars == <<heap, post, last, nops, traj, pc, chooser, choice, omega_list, i, t, m, t_hist, log>>

\* The variables of the estimator loop and of the time chooser.
loop_vars == <<pc, chooser, choice, omega_list, i, t, m, t_hist, log>>

Trials == {1, 2}

Addr == {<<"nodes", 0>>, <<"prior", 0>>} \cup { <<f, tr>> : f \in {"omegas", "dist"}, tr \in Trials }

NodesAddr == <<"nodes", 0>>
PriorAddr == <<"prior", 0>>

Unbuilt == [state |-> "none", kind |-> "none", omegas |-> NodesAddr, dist |-> PriorAddr,
            v1 |-> 0, size |-> 0, target_cov |-> Zero]

NoOp == [op |-> "none", tr |-> 0, resampled |-> FALSE, checked |-> <<>>, degenerate |-> FALSE,
         t |-> Zero, m |-> 0]

Built(tr) == post[tr].state = "ok"

Omegas(tr) == heap[post[tr].omegas]
Dist(tr) == heap[post[tr].dist]

HasNaN(dist) == \E k \in DOMAIN dist : IsNaN(dist[k])

\* The values np.random.normal(0, sqrt(v1)) is drawn from: 0 when v1 = 0.
NormalDraws(v1) == IF v1 = 0 THEN {0} ELSE { 6 * d : d \in -MaxDraw..MaxDraw }

\* The values one element of epsilon (a difference of two exponentials of
\* scale sqrt(add_var/2)) is drawn from: 0 when the scale is 0.
JitterDraws(add_var) == IF add_var = Zero THEN {0} ELSE {-18, 6}

\* ------------------------------------------------------------------------
\* DynamicDist1D.resample, as the set of its outcomes over the resampler's
\* choice and the jitter draws.

\* A resample that takes cov_new as the target in both branches.
resample_branch_takes_cov_new(new_omegas, size, target_cov, cov_new) ==
    IF RLess(target_cov, cov_new)
    THEN { [omegas |-> new_omegas, dist |-> uniform(size), target_cov |-> cov_new] }
    ELSE { [omegas |-> [k \in 1..size |-> clip_omega(new_omegas[k] + epsilon[k])],
            dist |-> uniform(size), target_cov |-> cov_new]
           : epsilon \in UNION { [1..size -> JitterDraws(add_var)]
                                 : add_var \in {RMul(b, RSub(target_cov, cov_new))} } }

\* The branch on cov_new, for one choice idx of the resampler.
resample_branch(new_omegas, size, target_cov, cov_new) ==
    IF RLess(target_cov, cov_new)
    THEN { [omegas |-> new_omegas, dist |-> uniform(size), target_cov |-> cov_new] }
    ELSE { [omegas |-> [k \in 1..size |-> clip_omega(new_omegas[k] + epsilon[k])],
            dist |-> uniform(size), target_cov |-> target_cov]
           : epsilon \in UNION { [1..size -> JitterDraws(add_var)]
                                 : add_var \in {RMul(b, RSub(target_cov, cov_new))} } }

resample_at(omegas, size, target_cov, idx) ==
    UNION { resample_branch(new_omegas, size, target_cov, cov(new_omegas, uniform(size)))
            : new_omegas \in {take(omegas, idx)} }

resample(omegas, dist, size, target_cov) ==
    UNION { resample_at(omegas, size, target_cov, idx) : idx \in deterministic_sample(size, dist) }

\* ------------------------------------------------------------------------
\* Constructors.

\* A constructor that keeps the caller's arrays instead of copies of them.
GridDist1D_init_no_copy(tr, v1) ==
    IF Len(heap[NodesAddr]) # Len(heap[PriorAddr])
    THEN /\ post' = [post EXCEPT ![tr] = [Unbuilt EXCEPT !.state = "failed", !.kind = "grid"]]
         /\ heap' = heap
    ELSE /\ heap' = heap
         /\ post' = [post EXCEPT ![tr] =
                        [state |-> "ok", kind |-> "grid", omegas |-> NodesAddr,
                         dist |-> PriorAddr, v1 |-> v1, size |-> Len(heap[NodesAddr]),
                         target_cov |-> Zero]]

\* GridDist1D.__init__(omegas, prior, v1)
GridDist1D_init(tr, v1) ==
    LET omegas == heap[NodesAddr]
        prior == heap[PriorAddr]
    IN  IF Len(omegas) # Len(prior)
        THEN /\ post' = [post EXCEPT ![tr] = [Unbuilt EXCEPT !.state = "failed", !.kind = "grid"]]
             /\ heap' = heap
        ELSE /\ heap' = [heap EXCEPT ![<<"omegas", tr>>] = omegas, ![<<"dist", tr>>] = prior]
             /\ post' = [post EXCEPT ![tr] =
                            [state |-> "ok", kind |-> "grid", omegas |-> <<"omegas", tr>>,
                             dist |-> <<"dist", tr>>, v1 |-> v1, size |-> Len(omegas),
                             target_cov |-> Zero]]

\* DynamicDist1D.__init__(omegas, prior, v1, size).  It fails when the
\* resampler cannot deliver (no weights to draw from), when an index it
\* returns is outside omegas (IndexError), when size < 0 (np.ones) and when
\* size = 0 (np.cov of no samples: the weights sum to zero).
DynamicDist1D_init(tr, v1, size) ==
    LET omegas == heap[NodesAddr]
        prior == heap[PriorAddr]
        failed == /\ post' = [post EXCEPT ![tr] = [Unbuilt EXCEPT !.state = "failed", !.kind = "dynamic",
                                                                    !.size = size]]
                  /\ heap' = heap
    IN  IF size <= 0 \/ prior = <<>> \/ deterministic_sample(size, prior) = {}
        THEN failed
        ELSE \E idx \in deterministic_sample(size, prior) :
                IF \E k \in DOMAIN idx : idx[k] > Len(omegas)
                THEN failed
                ELSE /\ heap' = [heap EXCEPT ![<<"omegas", tr>>] = take(omegas, idx),
                                             ![<<"dist", tr>>] = uniform(size)]
                     /\ post' = [post EXCEPT ![tr] =
                                    [state |-> "ok", kind |-> "dynamic", omegas |-> <<"omegas", tr>>,
                                     dist |-> <<"dist", tr>>, v1 |-> v1, size |-> size,
                                     target_cov |-> cov(take(omegas, idx), uniform(size))]]

\* ------------------------------------------------------------------------
\* The public operations of a posterior, as relations on <<heap, post>>.

\* GridDist1D.wait_u: self.dist is bound to a new array; scipy's dct
\* raises on an array of no elements.
GridDist1D_wait_u(tr) ==
    IF post[tr].size = 0
    THEN /\ post' = [post EXCEPT ![tr].state = "error"]
         /\ heap' = heap
    ELSE /\ heap' = [heap EXCEPT ![<<"dist", tr>>] = GridDist1D_diffuse(Dist(tr), post[tr].v1)]
         /\ post' = [post EXCEPT ![tr].dist = <<"dist", tr>>]

\* GridDist1D.update: `self.dist *= likelihood` writes the array in place,
\* then normalize() binds self.dist to a new array.
GridDist1D_update(tr, tt, mm) ==
    LET in_place == [heap EXCEPT ![post[tr].dist] = MulLikelihood(Dist(tr), Omegas(tr), tt, mm)]
    IN  /\ heap' = [in_place EXCEPT ![<<"dist", tr>>] = normalize(in_place[post[tr].dist])]
        /\ post' = [post EXCEPT ![tr].dist = <<"dist", tr>>]

\* DynamicDist1D.wait_u
DynamicDist1D_wait_u(tr) ==
    \E draw \in NormalDraws(post[tr].v1) :
        /\ heap' = [heap EXCEPT ![<<"omegas", tr>>] = perturb_omega(Omegas(tr), draw)]
        /\ post' = [post EXCEPT ![tr].omegas = <<"omegas", tr>>,
                                ![tr].target_cov = RAdd(@, RInt(post[tr].v1))]

\* The test with <= in place of <.
ess_not_above(dist, size) == RLeq(n_ess(dist), RMul(n_ess_limit, RInt(size)))

\* Whether update's test `self.n_ess() < self.n_ess_limit * self.size` passes.
ess_too_low(dist, size) == RLess(n_ess(dist), RMul(n_ess_limit, RInt(size)))

\* DynamicDist1D.update; `resampled` tells whether resample() was called.
\* (Each intermediate value is bound once, in the order the code computes it.)
DynamicDist1D_update(tr, tt, mm, resampled) ==
    \E old_cov \in {cov(Omegas(tr), Dist(tr))},
       in_place \in {[heap EXCEPT ![post[tr].dist] = MulLikelihood(Dist(tr), Omegas(tr), tt, mm)]} :
    \E new_dist \in {normalize(in_place[post[tr].dist])} :
    \E new_cov \in {cov(Omegas(tr), new_dist)} :
    \E target \in {RMul(post[tr].target_cov, PyMax(a, RDiv(new_cov, old_cov)))} :
        IF ess_too_low(new_dist, post[tr].size)
        THEN /\ resampled
             /\ \E r \in resample(Omegas(tr), new_dist, post[tr].size, target) :
                   /\ heap' = [in_place EXCEPT ![<<"dist", tr>>] = r.dist,
                                               ![<<"omegas", tr>>] = r.omegas]
                   /\ post' = [post EXCEPT ![tr].dist = <<"dist", tr>>,
                                           ![tr].omegas = <<"omegas", tr>>,
                                           ![tr].target_cov = r.target_cov]
        ELSE /\ ~resampled
             /\ heap' = [in_place EXCEPT ![<<"dist", tr>>] = new_dist]
             /\ post' = [post EXCEPT ![tr].dist = <<"dist", tr>>, ![tr].target_cov = target]

\* DynamicDist1D.resample called directly.  The resampler takes weights
\* that sum to 1, so the call is made on a normalized posterior only.
DynamicDist1D_resample(tr) ==
    \E r \in resample(Omegas(tr), Dist(tr), post[tr].size, post[tr].target_cov) :
        /\ heap' = [heap EXCEPT ![<<"dist", tr>>] = r.dist, ![<<"omegas", tr>>] = r.omegas]
        /\ post' = [post EXCEPT ![tr].dist = <<"dist", tr>>, ![tr].omegas = <<"omegas", tr>>,
                                ![tr].target_cov = r.target_cov]

\* The weights update() tests the effective sample size of.
reweighted(tr, tt, mm) == normalize(MulLikelihood(Dist(tr), Omegas(tr), tt, mm))

\* update(t, m) is degenerate when the likelihood is zero wherever the
\* posterior carries mass.
zero_likelihood(tr, tt, mm) ==
    \A k \in DOMAIN Dist(tr) :
        Dist(tr)[k] # Zero => likelihood(Omegas(tr)[k], tt, mm) = Zero

\* ------------------------------------------------------------------------
\* sample_dist and sample_omega_list (the ground-truth trajectory).

\* sample_dist(values, dist): a node i of positive probability is chosen,
\* then a value uniformly between the midpoints to its two neighbours (the
\* first and last node are their own outer neighbours).  The draws taken
\* are the two ends of that cell, rounded inwards, and the node itself.
sample_dist(values, dist) ==
    UNION { LET lo == IF k = 1 THEN values[1] ELSE values[k - 1]
                hi == IF k = Len(values) THEN values[k] ELSE values[k + 1]
            IN  { (lo + values[k] + 1) \div 2, values[k], (values[k] + hi) \div 2 }
            : k \in { k \in DOMAIN values : dist[k] # Zero } }

\* The loop `for i in range(1, length)`: n more values are appended.
RECURSIVE drift(_, _, _)
drift(lists, v1, n) ==
    IF n <= 0 THEN lists
    ELSE drift({ Append(l, perturb_omega(<<l[Len(l)]>>, draw)[1]) : l \in lists, draw \in NormalDraws(v1) },
               v1, n - 1)

sample_omega_list(omegas, prior, v1, length) ==
    drift({ <<omega0>> : omega0 \in sample_dist(omegas, prior) }, v1, length - 1)

\* ------------------------------------------------------------------------
\* TimeChooser: RandomChooser and TwoPointChooser.

NoChooser == [name |-> "none", search_depth |-> 0]
NoChoice == [branch |-> "none", omega1 |-> 0, omega2 |-> 0,
             n |-> 0, m |-> 0, nb |-> 0, mb |-> 0, steps |-> 0]

\* The times a uniform draw is taken from: multiples of 5 pi / 3.
TimeLattice == { R(5 * j, 3) : j \in 0..3 }

\* np.random.uniform(lo, hi): a value in [lo, hi).
Uniform(lo, hi) == { x \in TimeLattice : RLeq(lo, x) /\ RLess(x, hi) }

RAbs(x) == <<Abs(x[1]), x[2]>>

\* np.random.choice(omegas, p=np.abs(dist), size=16) raises ValueError when
\* there is nothing to choose from, when p holds a NaN and when p does not
\* sum to 1.
sample_omega_raises(omegas, dist) ==
    \/ omegas = <<>>
    \/ HasNaN(dist)
    \/ RSum([k \in DOMAIN dist |-> RAbs(dist[k])]) # One

\* The values sample_omega can return: the nodes of non-zero probability.
\* (np.sort(...)[[0, -1]] of 16 samples: any pair omega1 <= omega2 of them.)
sample_omega(omegas, dist) == { omegas[k] : k \in { k \in DOMAIN dist : dist[k] # Zero } }

\* pi (2n+1) / |omega1 - omega2| and pi (2m+1) / (omega1 + omega2), in pi s.
tau_n(omega1, omega2, n) == RDiv(RInt(10 * (2 * n + 1)), RInt(Abs(omega1 - omega2)))
tau_m(omega1, omega2, mm) == RDiv(RInt(10 * (2 * mm + 1)), RInt(omega1 + omega2))

RMax(x, y) == IF RLess(x, y) THEN y ELSE x

\* The search with the test against t_max left out: it never stops early.
RECURSIVE joint_search_without_break(_, _, _, _)
joint_search_without_break(omega1, omega2, search_depth, s) ==
    IF s.steps >= search_depth THEN s
    ELSE LET inc_n == RLess(tau_n(omega1, omega2, s.n), tau_m(omega1, omega2, s.m))
             nn == IF inc_n THEN s.n + 1 ELSE s.n
             mm == IF inc_n THEN s.m ELSE s.m + 1
             diff == RAbs(RSub(tau_n(omega1, omega2, nn), tau_m(omega1, omega2, mm)))
             better == RLess(diff, s.min_diff)
         IN  joint_search_without_break(omega1, omega2, search_depth,
                               [n |-> nn, m |-> mm,
                                nb |-> IF better THEN nn ELSE s.nb,
                                mb |-> IF better THEN mm ELSE s.mb,
                                min_diff |-> IF better THEN diff ELSE s.min_diff,
                                steps |-> s.steps + 1])

\* The joint search `for i in range(self.search_depth)`, from the state s
\* of its local variables; steps counts the iterations begun.
RECURSIVE joint_search(_, _, _, _)
joint_search(omega1, omega2, search_depth, s) ==
    IF s.steps >= search_depth THEN s
    ELSE LET inc_n == RLess(tau_n(omega1, omega2, s.n), tau_m(omega1, omega2, s.m))
             nn == IF inc_n THEN s.n + 1 ELSE s.n
             mm == IF inc_n THEN s.m ELSE s.m + 1
             diff == RAbs(RSub(tau_n(omega1, omega2, nn), tau_m(omega1, omega2, mm)))
             better == RLess(diff, s.min_diff)
         IN  IF RLess(t_max, RMax(tau_n(omega1, omega2, nn), tau_m(omega1, omega2, mm)))
             THEN [s EXCEPT !.n = nn, !.m = mm, !.steps = s.steps + 1]
             ELSE joint_search(omega1, omega2, search_depth,
                               [n |-> nn, m |-> mm,
                                nb |-> IF better THEN nn ELSE s.nb,
                                mb |-> IF better THEN mm ELSE s.mb,
                                min_diff |-> IF better THEN diff ELSE s.min_diff,
                                steps |-> s.steps + 1])

\* The index rounded up instead of down.
tau_m_index_rounded_up(omega1, omega2) == (4 * (omega1 + omega2) - 10) \div 20 + 1

\* np.floor((t_max * (omega1 + omega2) / np.pi - 1) / 2), with t_max = 4 pi
\* and the frequencies in 0.1 1/s: floor((4 (omega1 + omega2) / 10 - 1) / 2).
tau_m_index(omega1, omega2) == (4 * (omega1 + omega2) - 10) \div 20

\* TwoPointChooser.get_t after the two extreme samples are drawn: the set
\* of <<branch taken, time returned, final search state>>.
degenerate_t_from_zero == Uniform(Zero, t_max)

\* np.random.uniform(0.7 * t_max, t_max)
degenerate_t == Uniform(RMul(R(7, 10), t_max), t_max)

two_point_t(omega1, omega2, search_depth) ==
    LET none == [n |-> 0, m |-> 0, nb |-> 0, mb |-> 0, min_diff |-> Zero, steps |-> 0]
    IN  IF omega1 = omega2
        THEN { <<"degenerate", x, none>> : x \in degenerate_t }
        ELSE IF RLess(t_max, tau_m(omega1, omega2, 0))
        THEN { <<"t_max", t_max, none>> }
        ELSE IF RLess(t_max, tau_n(omega1, omega2, 0))
        THEN { <<"tau_m_only",
                 tau_m(omega1, omega2, tau_m_index(omega1, omega2)), none>> }
        ELSE LET s == joint_search(omega1, omega2, search_depth,
                          [none EXCEPT !.min_diff =
                              RAbs(RSub(tau_n(omega1, omega2, 0), tau_m(omega1, omega2, 0)))])
             IN  IF RLess(t_max, tau_n(omega1, omega2, s.nb))
                 THEN { <<"best_tau_m", tau_m(omega1, omega2, s.mb), s>> }
                 ELSE { <<"average",
                          RDiv(RAdd(tau_n(omega1, omega2, s.nb), tau_m(omega1, omega2, s.mb)), RInt(2)),
                          s>> }

\* chooser.get_t(dist): the set of outcomes [branch, t, ...]; branch
\* "raised" is an exception leaving get_t.
get_t(ch, omegas, dist) ==
    LET random == { [NoChoice EXCEPT !.branch = "random"] @@ [t |-> x] : x \in Uniform(Zero, t_max) }
    IN  IF ch.name = "random" THEN random
        ELSE random \cup
             IF sample_omega_raises(omegas, dist)
             THEN { [NoChoice EXCEPT !.branch = "raised"] @@ [t |-> Zero] }
             ELSE UNION { IF omega1 > omega2 THEN {} ELSE
                          { [branch |-> r[1], omega1 |-> omega1, omega2 |-> omega2,
                             n |-> r[3].n, m |-> r[3].m, nb |-> r[3].nb, mb |-> r[3].mb,
                             steps |-> r[3].steps, t |-> r[2]]
                            : r \in two_point_t(omega1, omega2, ch.search_depth) }
                          : omega1 \in sample_omega(omegas, dist),
                            omega2 \in sample_omega(omegas, dist) }

\* ------------------------------------------------------------------------
\* Calls on the public interface.

Kinds == {"grid", "dynamic"}

\* v1 >= 0.  For a grid posterior in units of 2 ln(2) diff^2 / pi^2 (see
\* heat_factor), for a particle posterior and a trajectory in units of
\* 0.01 1/s^2 (the square of the frequency unit).
V1Values == {0, 1}

\* Measurement times handed to update() directly: 0 and 10 pi / 3.
UpdateTimes == {<<0, 1>>, <<10, 3>>}

\* (A run of the model samples a trajectory or makes calls on posteriors:
\* the two share no state.)
Construct(tr, kinds, sizes) ==
    /\ post[tr].state = "none"
    /\ traj = <<>>
    /\ \E kind \in kinds, v1 \in V1Values, size \in sizes \cup {0} :
          /\ kind = "grid" => size = 0
          /\ IF kind = "grid" THEN GridDist1D_init(tr, v1) ELSE DynamicDist1D_init(tr, v1, size)
          /\ last' = [NoOp EXCEPT !.op = "init", !.tr = tr]
    /\ UNCHANGED <<nops, traj, loop_vars>>

\* posterior.wait_u() and posterior.update(t, m), dispatched on the class.
Do_wait_u(tr) ==
    /\ IF post[tr].kind = "grid" THEN GridDist1D_wait_u(tr) ELSE DynamicDist1D_wait_u(tr)
    /\ last' = [NoOp EXCEPT !.op = "wait_u", !.tr = tr]

Do_update(tr, tt, mm) ==
    \E resampled \in BOOLEAN :
        /\ IF post[tr].kind = "grid"
           THEN ~resampled /\ GridDist1D_update(tr, tt, mm)
           ELSE DynamicDist1D_update(tr, tt, mm, resampled)
        /\ last' = [op |-> "update", tr |-> tr, resampled |-> resampled,
                    checked |-> reweighted(tr, tt, mm),
                    degenerate |-> zero_likelihood(tr, tt, mm), t |-> tt, m |-> mm]

Call_wait_u(tr) ==
    /\ post[tr].state = "ok"
    /\ nops < MaxOps
    /\ Do_wait_u(tr)
    /\ nops' = nops + 1
    /\ UNCHANGED <<traj, loop_vars>>

Call_update(tr) ==
    /\ post[tr].state = "ok"
    /\ nops < MaxOps
    /\ \E tt \in UpdateTimes, mm \in {0, 1} : Do_update(tr, tt, mm)
    /\ nops' = nops + 1
    /\ UNCHANGED <<traj, loop_vars>>

Call_resample(tr) ==
    /\ post[tr].state = "ok"
    /\ post[tr].kind = "dynamic"
    /\ ~HasNaN(Dist(tr))
    /\ nops < MaxOps
    /\ DynamicDist1D_resample(tr)
    /\ last' = [NoOp EXCEPT !.op = "resample", !.tr = tr, !.resampled = TRUE]
    /\ nops' = nops + 1
    /\ UNCHANGED <<traj, loop_vars>>

\* (np.random.choice raises when there are no values or when p is not of
\* the values' size: no trajectory is returned then.)
Call_sample_omega_list ==
    /\ traj = <<>>
    /\ post[1].state = "none"
    /\ heap[NodesAddr] # <<>>
    /\ Len(heap[NodesAddr]) = Len(heap[PriorAddr])
    /\ \E v1 \in V1Values, length \in 1..MaxLen :
          traj' \in sample_omega_list(heap[NodesAddr], heap[PriorAddr], v1, length)
    /\ UNCHANGED <<heap, post, last, nops, loop_vars>>

\* The node and prior arrays of the runs: normalized priors on nodes inside
\* the frequency bounds.
ValidInputs ==
    { [nodes |-> <<3, 8, 12>>, prior |-> <<R(1, 3), R(1, 3), R(1, 3)>>],
      [nodes |-> <<3, 8, 12>>, prior |-> <<R(1, 2), Zero, R(1, 2)>>],
      [nodes |-> <<8, 12>>, prior |-> <<R(1, 2), R(1, 2)>>],
      [nodes |-> <<12>>, prior |-> <<One>>] }

\* Inputs a constructor is documented to refuse: sizes that differ, and no
\* nodes at all.
InvalidInputs ==
    { [nodes |-> <<3, 8, 12>>, prior |-> <<R(1, 2), R(1, 2)>>],
      [nodes |-> <<8, 12>>, prior |-> <<R(1, 3), R(1, 3), R(1, 3)>>],
      [nodes |-> <<>>, prior |-> <<>>] }

InitWith(inputs) ==
    /\ \E in \in inputs :
          heap = [ad \in Addr |-> IF ad = NodesAddr THEN in.nodes
                                  ELSE IF ad = PriorAddr THEN in.prior ELSE <<>>]
    /\ post = [tr \in Trials |-> Unbuilt]
    /\ last = NoOp
    /\ nops = 0
    /\ traj = <<>>
    /\ pc = "none"
    /\ chooser = NoChooser
    /\ choice = NoChoice
    /\ omega_list = <<>>
    /\ i = 0
    /\ t = Zero
    /\ m = 0
    /\ t_hist = <<>>
    /\ log = <<>>

InitPost == InitWith(ValidInputs)

NextPost ==
    \/ Construct(1, Kinds, -1..MaxParticles)
    \/ Call_wait_u(1)
    \/ Call_update(1)
    \/ Call_resample(1)
    \/ Call_sample_omega_list

SpecPost == InitPost /\ [][NextPost]_vars

\* ------------------------------------------------------------------------
\* Estimator.many_measure(omega_list), one action per call it makes.
\* pc is the position in the loop body: "idle" at the top of the loop,
\* "chosen" after get_t, "measured" after measure, "waited" after wait_u;
\* "done" after the return and "error" when an exception left the loop.

Choosers ==
    {[name |-> "random", search_depth |-> 0]}
        \cup { [name |-> "two_point", search_depth |-> d] : d \in 0..MaxDepth }

\* True frequencies handed to many_measure.
TrueOmegas == {6, 9}

RECURSIVE lists_upto(_, _)
lists_upto(S, n) ==
    IF n = 0 THEN {<<>>}
    ELSE lists_upto(S, n - 1) \cup { Append(l, x) : l \in { l \in lists_upto(S, n - 1) : Len(l) = n - 1 }, x \in S }

\* Estimator(dist, chooser).many_measure(omega_list) is entered.
Call_many_measure ==
    /\ pc = "none"
    /\ Built(1)
    /\ \E ch \in Choosers, ol \in lists_upto(TrueOmegas, MaxLen) :
          /\ chooser' = ch
          /\ omega_list' = ol
    /\ pc' = "idle"
    /\ i' = 0
    /\ t_hist' = <<>>
    /\ UNCHANGED <<heap, post, last, nops, traj, choice, t, m, log>>

\* t = self.chooser.get_t(self.dist); t_hist.append(t)
Loop_get_t ==
    /\ pc = "idle"
    /\ i < Len(omega_list)
    /\ \E c \in get_t(chooser, Omegas(1), Dist(1)) :
          /\ choice' = [f \in DOMAIN NoChoice |-> c[f]]
          /\ IF c.branch = "raised"
             THEN pc' = "error" /\ UNCHANGED <<t, t_hist>>
             ELSE pc' = "chosen" /\ t' = c.t /\ t_hist' = Append(t_hist, c.t)
          /\ log' = Append(log, [op |-> IF c.branch = "raised" THEN "get_t_raised" ELSE "get_t",
                                  omega |-> 0, t |-> c.t, m |-> 0])
    /\ UNCHANGED <<heap, post, last, nops, traj, chooser, omega_list, i, m>>

\* m = measure(omega_list[i], t)
Loop_measure ==
    /\ pc = "chosen"
    /\ m' \in measure(omega_list[i + 1], t)
    /\ pc' = "measured"
    /\ log' = Append(log, [op |-> "measure", omega |-> omega_list[i + 1], t |-> t, m |-> m'])
    /\ UNCHANGED <<heap, post, last, nops, traj, chooser, choice, omega_list, i, t, t_hist>>

Loop_wait_u_skipped ==
    /\ pc = "measured"
    /\ pc' = "waited"
    /\ UNCHANGED <<heap, post, last, nops, traj, chooser, choice, omega_list, i, t, m, t_hist, log>>

\* self.dist.wait_u()
Loop_wait_u ==
    /\ pc = "measured"
    /\ Do_wait_u(1)
    /\ pc' = "waited"
    /\ log' = Append(log, [op |-> "wait_u", omega |-> 0, t |-> Zero, m |-> 0])
    /\ UNCHANGED <<nops, traj, chooser, choice, omega_list, i, t, m, t_hist>>

\* self.dist.update(t, m), the end of the loop body
Loop_update ==
    /\ pc = "waited"
    /\ Do_update(1, t, m)
    /\ pc' = "idle"
    /\ i' = i + 1
    /\ log' = Append(log, [op |-> "update", omega |-> 0, t |-> t, m |-> m])
    /\ UNCHANGED <<nops, traj, chooser, choice, omega_list, t, m, t_hist>>

\* return t_hist
Loop_return ==
    /\ pc = "idle"
    /\ i = Len(omega_list)
    /\ pc' = "done"
    /\ UNCHANGED <<heap, post, last, nops, traj, chooser, choice, omega_list, i, t, m, t_hist, log>>

\* Node and prior arrays on which every time the choosers return keeps
\* the phases on the cosine's rational lattice.
LoopInputs ==
    { [nodes |-> <<6, 12>>, prior |-> <<R(1, 2), R(1, 2)>>],
      [nodes |-> <<6, 12>>, prior |-> <<One, Zero>>],
      [nodes |-> <<12>>, prior |-> <<One>>] }

Init == InitWith(LoopInputs)

Next ==
    \/ Construct(1, {"grid"}, {0})
    \/ Call_many_measure
    \/ Loop_get_t
    \/ Loop_measure
    \/ Loop_wait_u
    \/ Loop_update
    \/ Loop_return

Spec == Init /\ [][Next]_vars

\* The constructors tried on every input, the refused ones included.
InitCtor == InitWith(ValidInputs \cup InvalidInputs)

SpecCtor == InitCtor /\ [][NextPost]_vars

\* Two posteriors built from the same node and prior arrays, and calls
\* on either of them in any order.
InitTrials == InitWith({ [nodes |-> <<3, 8, 12>>, prior |-> <<R(1, 2), Zero, R(1, 2)>>] })

NextTrials ==
    \E tr \in Trials :
        \/ Construct(tr, Kinds, {2})
        \/ Call_wait_u(tr)
        \/ Call_update(tr)
        \/ Call_resample(tr)

SpecTrials == InitTrials /\ [][NextTrials]_vars

\* ------------------------------------------------------------------------
\* chooser.get_t(dist) called on priors of many supports.

Call_get_t ==
    /\ Built(1)
    /\ pc = "none"
    /\ \E ch \in Choosers : \E c \in get_t(ch, Omegas(1), Dist(1)) :
          /\ chooser' = ch
          /\ choice' = [f \in DOMAIN NoChoice |-> c[f]]
          /\ t' = c.t
    /\ UNCHANGED <<heap, post, last, nops, traj, pc, omega_list, i, m, t_hist, log>>

ChooserInputs ==
    { [nodes |-> <<1, 10, 19>>, prior |-> <<R(1, 3), R(1, 3), R(1, 3)>>],
      [nodes |-> <<1, 2, 4>>, prior |-> <<R(1, 3), R(1, 3), R(1, 3)>>],
      [nodes |-> <<3, 8, 12>>, prior |-> <<R(1, 3), R(1, 3), R(1, 3)>>],
      [nodes |-> <<5, 7, 16>>, prior |-> <<R(1, 3), R(1, 3), R(1, 3)>>],
      [nodes |-> <<6, 12, 18>>, prior |-> <<R(1, 3), R(1, 3), R(1, 3)>>],
      [nodes |-> <<9, 11, 15>>, prior |-> <<R(1, 2), Zero, R(1, 2)>>],
      [nodes |-> <<13, 19>>, prior |-> <<R(1, 2), R(1, 2)>>] }

InitChooser == InitWith(ChooserInputs)

NextChooser ==
    \/ Construct(1, {"grid"}, {0})
    \/ Call_get_t

SpecChooser == InitChooser /\ [][NextChooser]_vars

\* ------------------------------------------------------------------------
\* est_var_omega.GridDist: the grid over omega x v1.  The mass array is a
\* sequence of rows, dist[i][c] the mass at omega node i and v1 node c; the
\* field v1 of the posterior holds the v1 nodes (in the unit of heat_factor).

Column(dist, c) == [k \in DOMAIN dist |-> dist[k][c]]

\* The prior arrays and v1 node vectors handed to GridDist.
Priors2D ==
    { << <<R(1, 2), R(1, 2)>> >>,
      << <<R(1, 4), R(1, 4)>>, <<R(1, 4), R(1, 4)>> >>,
      << <<R(1, 2), Zero>>, <<R(1, 4), R(1, 4)>> >>,
      << <<R(1, 6), R(1, 6)>>, <<R(1, 6), R(1, 6)>>, <<R(1, 6), R(1, 6)>> >>,
      << <<R(1, 2), Zero>>, <<Zero, Zero>>, <<Zero, R(1, 2)>> >>,
      << <<R(1, 3), R(1, 6)>>, <<Zero, R(1, 4)>>, <<R(1, 4), Zero>> >> }

V1sValues == { <<0, 1>>, <<1, 1>>, <<1, 0>> }

\* GridDist.__init__(omegas, v1s, prior)
GridDist_init(tr, v1s, prior) ==
    LET omegas == heap[NodesAddr]
    IN  IF Len(prior) # Len(omegas) \/ \E k \in DOMAIN prior : Len(prior[k]) # Len(v1s)
        THEN /\ post' = [post EXCEPT ![tr] = [Unbuilt EXCEPT !.state = "failed", !.kind = "grid2d"]]
             /\ heap' = heap
        ELSE /\ heap' = [heap EXCEPT ![<<"omegas", tr>>] = omegas, ![<<"dist", tr>>] = prior]
             /\ post' = [post EXCEPT ![tr] =
                            [state |-> "ok", kind |-> "grid2d", omegas |-> <<"omegas", tr>>,
                             dist |-> <<"dist", tr>>, v1 |-> v1s, size |-> Len(omegas),
                             target_cov |-> Zero]]

\* One column of GridDist.wait_u.  diff is the distance of the last node
\* from the first.  With diff = 0 (one node) fact = v1 * pi^2 / 0 is inf, or
\* NaN when v1 = 0; the only mode is n = 0, fact * n^2 is inf * 0 = NaN or
\* NaN * 0 = NaN, and exp(NaN) = NaN multiplies the column.
GridDist_diffuse_column(col, omegas, v1) ==
    IF omegas[Len(omegas)] = omegas[1]
    THEN [k \in DOMAIN col |-> NaN]
    ELSE GridDist1D_diffuse(col, v1)

\* GridDist.wait_u: dct, damping and idct along axis 0, column by column.
GridDist_wait_u(tr) ==
    /\ heap' = [heap EXCEPT ![<<"dist", tr>>] =
                    [k \in DOMAIN Dist(tr) |->
                        [c \in DOMAIN post[tr].v1 |->
                            GridDist_diffuse_column(Column(Dist(tr), c), Omegas(tr), post[tr].v1[c])[k]]]]
    /\ post' = [post EXCEPT ![tr].dist = <<"dist", tr>>]

Construct_GridDist(tr) ==
    /\ post[tr].state = "none"
    /\ \E v1s \in V1sValues, prior \in Priors2D : GridDist_init(tr, v1s, prior)
    /\ last' = [NoOp EXCEPT !.op = "init", !.tr = tr]
    /\ UNCHANGED <<nops, traj, loop_vars>>

Call_wait_u_GridDist(tr) ==
    /\ post[tr].state = "ok"
    /\ post[tr].kind = "grid2d"
    /\ nops < MaxOps
    /\ GridDist_wait_u(tr)
    /\ last' = [NoOp EXCEPT !.op = "wait_u", !.tr = tr]
    /\ nops' = nops + 1
    /\ UNCHANGED <<traj, loop_vars>>

\* A 1D grid posterior (trial 1) and a grid over omega x v1 (trial 2) on the
\* same omega nodes.
InitDiffuse == InitWith(ValidInputs)

NextDiffuse ==
    \/ Construct(1, {"grid"}, {0})
    \/ Call_wait_u(1)
    \/ Call_update(1)
    \/ Construct_GridDist(2)
    \/ Call_wait_u_GridDist(2)

SpecDiffuse == InitDiffuse /\ [][NextDiffuse]_vars

\* ------------------------------------------------------------------------
\* Properties of the posteriors.

\* The weights are numbers that sum to 1.
Normalized(dist) == RSum(dist) = One

OneHot(dist) ==
    \E k \in DOMAIN dist : dist[k] = One /\ \A j \in DOMAIN dist : j # k => dist[j] = Zero

\* C3: after every wait_u / update call on a posterior built from a
\* normalized prior, the mass array (grid) or weight vector (particles)
\* sums to 1.
C3_NormalizedAfterEveryCall ==
    \A tr \in Trials :
        Built(tr) /\ last.tr = tr /\ last.op \in {"wait_u", "update"} => Normalized(Dist(tr))

\* C4: an update whose likelihood is zero wherever the posterior carries
\* mass does not divide by zero: the posterior is a normalized distribution
\* afterwards.
C4_DegenerateUpdateStaysNormalized ==
    \A tr \in Trials :
        Built(tr) /\ last.tr = tr /\ last.op = "update" /\ last.degenerate
            => ~HasNaN(Dist(tr)) /\ Normalized(Dist(tr))

\* C5: every particle's omega, and every value of a sampled ground-truth
\* trajectory, lies in [omega_min, omega_max]; no call on a particle
\* posterior ends in an error.
C5_OmegasWithinBounds ==
    /\ \A tr \in Trials :
          post[tr].kind = "dynamic" /\ post[tr].state # "failed" =>
              /\ post[tr].state # "error"
              /\ \A k \in DOMAIN Omegas(tr) : omega_min <= Omegas(tr)[k] /\ Omegas(tr)[k] <= omega_max
    /\ \A k \in DOMAIN traj : omega_min <= traj[k] /\ traj[k] <= omega_max

\* C5 witness: an update resampled and a jittered particle was clipped to
\* omega_min (no node and no unclipped step of the runs lands there).
C5_Witness ==
    /\ Built(1) /\ post[1].kind = "dynamic"
    /\ last.op = "update" /\ last.resampled
    /\ \E k \in DOMAIN Omegas(1) : Omegas(1)[k] = omega_min

\* C6 as stated: for any N > 1, a particle posterior with one weight 1 and
\* the rest 0 resamples on its next update.
C6_OneHotAlwaysResamples ==
    [][(/\ Built(1) /\ post[1].kind = "dynamic" /\ post[1].size > 1
        /\ OneHot(Dist(1))
        /\ last'.op = "update") => last'.resampled]_vars

\* C6 amended: when the weights update() tests are one-hot (ESS = 1),
\* resample() is called exactly when N > 2; with N = 2 the ESS equals
\* n_ess_limit * N and no resample happens.
C6_OneHotResamplesIffMoreThanTwo ==
    \A tr \in Trials :
        Built(tr) /\ post[tr].kind = "dynamic" /\ last.tr = tr /\ last.op = "update"
                  /\ OneHot(last.checked)
            => (last.resampled <=> post[tr].size > 2)

C6_Witness ==
    /\ Built(1) /\ post[1].kind = "dynamic" /\ post[1].size = 3
    /\ last.op = "update" /\ OneHot(last.checked) /\ last.resampled

\* C7: target_cov >= 0 in every state of a particle posterior.
C7_TargetCovNonNegative ==
    \A tr \in Trials :
        Built(tr) /\ post[tr].kind = "dynamic" => RLeq(Zero, post[tr].target_cov)

\* C7 witness: an update that did not resample, on particles that all sit
\* at one frequency: the covariance before reweighting was 0.
C7_Witness ==
    /\ Built(1) /\ post[1].kind = "dynamic" /\ post[1].size > 1
    /\ last.op = "update" /\ ~last.resampled
    /\ \A k \in DOMAIN Omegas(1) : Omegas(1)[k] = Omegas(1)[1]

\* C9: construction fails when the node and prior arrays differ in size,
\* when there are no nodes, and when the particle count is not positive.
C9_BadInputsRefused ==
    \A tr \in Trials :
        (/\ post[tr].state # "none"
         /\ \/ Len(heap[NodesAddr]) # Len(heap[PriorAddr])
            \/ heap[NodesAddr] = <<>>
            \/ post[tr].kind = "dynamic" /\ post[tr].size <= 0)
        => post[tr].state = "failed"

\* C10: no constructor and no later call writes the node and prior arrays
\* it was handed, and a call on one posterior leaves every other posterior
\* built from the same arrays as it was.
C10_InputsUntouchedTrialsIndependent ==
    [][/\ heap'[NodesAddr] = heap[NodesAddr]
       /\ heap'[PriorAddr] = heap[PriorAddr]
       /\ \A tr \in Trials :
             last'.tr # tr =>
                 /\ post'[tr] = post[tr]
                 /\ heap'[post[tr].omegas] = heap[post[tr].omegas]
                 /\ heap'[post[tr].dist] = heap[post[tr].dist]]_vars

\* C10 witness: two grid posteriors were built from the same arrays, the
\* second was updated away from the prior and the first still equals it.
C10_Witness ==
    /\ Built(1) /\ Built(2) /\ post[1].kind = "grid" /\ post[2].kind = "grid"
    /\ last.op = "update" /\ last.tr = 2
    /\ Dist(2) # heap[PriorAddr] /\ Dist(1) = heap[PriorAddr]

\* What C11 asks of one wait_u on posterior tr: a 1D mass array keeps its
\* sum and, with v1 = 0, every element; in the grid over omega x v1 every
\* v1 column keeps its sum and, where its v1 is 0, every element.
MassConserved(tr) ==
    IF post[tr].kind = "grid2d"
    THEN \A c \in DOMAIN post[tr].v1 :
            /\ RSum(Column(heap'[post'[tr].dist], c)) = RSum(Column(Dist(tr), c))
            /\ post[tr].v1[c] = 0 => Column(heap'[post'[tr].dist], c) = Column(Dist(tr), c)
    ELSE /\ RSum(heap'[post'[tr].dist]) = RSum(Dist(tr))
         /\ post[tr].v1 = 0 => heap'[post'[tr].dist] = Dist(tr)

\* C11: wait_u on a grid posterior whose mass is numeric preserves the
\* total mass (of every v1 column in the grid over omega x v1) for any
\* v1 >= 0, and with v1 = 0 leaves the mass unchanged.
C11_DiffusionConservesMass ==
    [][\A tr \in Trials :
          (/\ last'.op = "wait_u" /\ last'.tr = tr
           /\ post[tr].kind \in {"grid", "grid2d"}
           /\ post[tr].kind = "grid" => ~HasNaN(Dist(tr)))
          => MassConserved(tr)]_vars

\* The same on grids of at least two omega nodes.
C11_ConservesMassOnTwoNodesOrMore ==
    [][\A tr \in Trials :
          (/\ last'.op = "wait_u" /\ last'.tr = tr
           /\ post[tr].kind \in {"grid", "grid2d"}
           /\ post[tr].kind = "grid" => ~HasNaN(Dist(tr))
           /\ post[tr].size >= 2)
          => MassConserved(tr)]_vars

\* What C13 says of one resample() that drew the particles idx: with
\* cov_new >= target_cov the target becomes cov_new and the particles are
\* the drawn ones; otherwise the target stays and every particle is a drawn
\* one plus a jitter draw of scale sqrt(b (target_cov - cov_new) / 2), clipped.
ResampledAs(idx) ==
    LET size == post[1].size
        drawn == take(Omegas(1), idx)
        cov_new == cov(drawn, uniform(size))
        target_cov == post[1].target_cov
    IN  /\ Len(heap'[post'[1].omegas]) = size
        /\ \A k \in 1..size : \E e \in {0} \cup JitterDraws(One) :
              heap'[post'[1].omegas][k] = clip_omega(drawn[k] + e)
        /\ IF RLeq(target_cov, cov_new)
           THEN /\ post'[1].target_cov = cov_new
                /\ heap'[post'[1].omegas] = drawn
           ELSE /\ post'[1].target_cov = target_cov
                /\ \E epsilon \in {JitterDraws(RMul(b, RSub(target_cov, cov_new)))} :
                      /\ 0 \notin epsilon
                      /\ \A k \in 1..size : \E e \in epsilon :
                            heap'[post'[1].omegas][k] = clip_omega(drawn[k] + e)

\* C13: a call of resample() never lowers target_cov; for the particles
\* it drew, cov_new >= target_cov (equality included) leaves them without
\* jitter and makes cov_new the target, cov_new < target_cov keeps the
\* target and adds jitter scaled by b (target_cov - cov_new).
C13_ResampleNeverLowersTargetCov ==
    [][last'.op = "resample" /\ last'.tr = 1 =>
          /\ RLeq(post[1].target_cov, post'[1].target_cov)
          /\ \E idx \in [1..post[1].size -> 1..post[1].size] : ResampledAs(idx)]_vars

\* C13 witness: resample() right after construction with N = 3 particles
\* of non-zero covariance: the drawn particles are the old ones, cov_new
\* equals target_cov, and nothing moved.
C13_Witness ==
    /\ Built(1) /\ post[1].kind = "dynamic" /\ post[1].size = 3
    /\ last.op = "resample" /\ nops = 1
    /\ post[1].target_cov # Zero
    /\ post[1].target_cov = cov(Omegas(1), Dist(1))
    /\ Omegas(1) = heap[NodesAddr]

\* C14: a resample() (called directly or by update) keeps the particle
\* count N and v1, leaves every weight 1/N, and every particle is a copy
\* of a particle from before the call, moved by the jitter at most.
C14_ResampleKeepsCountAndCopies ==
    [][last'.op \in {"resample", "update"} /\ last'.resampled /\ last'.tr = 1 =>
          /\ post'[1].size = post[1].size
          /\ post'[1].v1 = post[1].v1
          /\ Len(heap'[post'[1].omegas]) = post[1].size
          /\ heap'[post'[1].dist] = [k \in 1..post[1].size |-> R(1, post[1].size)]
          /\ \A k \in 1..post[1].size :
                \E j \in DOMAIN Omegas(1), e \in {0} \cup JitterDraws(One) :
                    /\ heap'[post'[1].omegas][k] = clip_omega(Omegas(1)[j] + e)
                    /\ e # 0 => post'[1].target_cov = post[1].target_cov \/ last'.op = "update"]_vars

\* C14 witness: an update resampled N = 3 particles and one particle was
\* copied twice.
C14_Witness ==
    /\ Built(1) /\ post[1].kind = "dynamic" /\ post[1].size = 3
    /\ last.op = "update" /\ last.resampled
    /\ Dist(1) = uniform(3)
    /\ \E j, k \in 1..3 : j < k /\ Omegas(1)[j] = Omegas(1)[k]

\* The mass-weighted mean of prob_excited(t, omega_k) over the nodes.
mean_likelihood(omegas, dist, tt) ==
    RSum([k \in DOMAIN dist |-> RMul(dist[k], prob_excited(tt, omegas[k]))])

\* A step that is update(t, 1) on the grid posterior 1 holding a normalized
\* array of non-negative masses.
GridUpdateWithOutcome1 ==
    /\ last'.op = "update" /\ last'.m = 1
    /\ Built(1) /\ post[1].kind = "grid"
    /\ Normalized(Dist(1))
    /\ \A k \in DOMAIN Dist(1) : RLeq(Zero, Dist(1)[k])

\* C12 as stated: update(t, 1) strictly raises the mass of every node whose
\* prob_excited is above the weighted mean likelihood and does not raise
\* the mass of any other node (here for a mean likelihood that is not 0).
C12_AboveMeanStrictlyIncreases ==
    [][GridUpdateWithOutcome1 /\ mean_likelihood(Omegas(1), Dist(1), last'.t) # Zero =>
          \A k \in DOMAIN Dist(1) :
              IF RLess(mean_likelihood(Omegas(1), Dist(1), last'.t),
                       prob_excited(last'.t, Omegas(1)[k]))
              THEN RLess(Dist(1)[k], heap'[post'[1].dist][k])
              ELSE RLeq(heap'[post'[1].dist][k], Dist(1)[k])]_vars

\* C12 amended: with mean likelihood Z > 0, a node of positive mass gains
\* mass strictly when its prob_excited is above Z and loses mass strictly
\* when it is below Z; a node of mass 0 and a node whose prob_excited
\* equals Z keep their mass.  With Z = 0 every element becomes NaN.
C12_PositiveMassMovesWithLikelihood ==
    [][GridUpdateWithOutcome1 =>
          LET Z == mean_likelihood(Omegas(1), Dist(1), last'.t)
              pe(k) == prob_excited(last'.t, Omegas(1)[k])
              old == Dist(1)
              new == heap'[post'[1].dist]
          IN  IF Z = Zero
              THEN \A k \in DOMAIN old : IsNaN(new[k])
              ELSE \A k \in DOMAIN old :
                      /\ old[k] # Zero /\ RLess(Z, pe(k)) => RLess(old[k], new[k])
                      /\ old[k] # Zero /\ RLess(pe(k), Z) => RLess(new[k], old[k])
                      /\ old[k] = Zero \/ pe(k) = Z => new[k] = old[k]]_vars

\* C12 witness: update(10 pi / 3, 1) on the uniform prior over the nodes
\* 0.3, 0.8, 1.2 (prob_excited 1, 3/4, 0; mean 7/12): the first two nodes
\* rose from 1/3 to 4/7 and 3/7, the third fell to 0.
C12_Witness ==
    /\ Built(1) /\ post[1].kind = "grid"
    /\ last.op = "update" /\ last.m = 1 /\ last.t = <<10, 3>>
    /\ Omegas(1) = <<3, 8, 12>>
    /\ Dist(1) = <<R(4, 7), R(3, 7), Zero>>

\* ------------------------------------------------------------------------
\* Properties of Estimator.many_measure and the time choosers.

\* C1: the calls of many_measure come in rounds of get_t, measure, wait_u,
\* update: measure gets the round's true frequency and the time get_t
\* returned, update gets that time and the outcome measure returned; a
\* round starts only when the round before it has finished its update, and
\* a wait_u is always followed by that round's update.
C1_CallOrder ==
    /\ \A k \in DOMAIN log :
          LET pos == (k - 1) % 4
              step == (k - 1) \div 4 + 1
          IN  /\ pos = 0 => /\ log[k].op \in {"get_t", "get_t_raised"}
                            /\ log[k].op = "get_t_raised" => k = Len(log) /\ pc = "error"
              /\ pos = 1 => /\ log[k].op = "measure"
                            /\ log[k].omega = omega_list[step]
                            /\ log[k].t = log[k - 1].t
              /\ pos = 2 => log[k].op = "wait_u"
              /\ pos = 3 => /\ log[k].op = "update"
                            /\ log[k].t = log[k - 3].t
                            /\ log[k].m = log[k - 2].m
    /\ pc = "chosen" => Len(log) = 4 * i + 1
    /\ pc = "measured" => Len(log) = 4 * i + 2
    /\ pc = "waited" => Len(log) = 4 * i + 3 /\ last.op = "wait_u" /\ post[1].state = "ok"
    /\ pc \in {"idle", "done"} => Len(log) = 4 * i /\ (i > 0 => last.op = "update")
    /\ Len(log) % 4 = 3 => pc = "waited"

\* C1 witness: two full rounds were made and many_measure returned.
C1_Witness == pc = "done" /\ i = 2 /\ Len(log) = 8 /\ omega_list[1] # omega_list[2]

\* C2: many_measure never ends in an error, and when it has returned, it
\* made exactly len(omega_list) rounds and t_hist holds, in order, the
\* times handed to the updates.
C2_ReturnsAfterLengthSteps ==
    /\ pc # "error"
    /\ pc = "done" =>
          /\ i = Len(omega_list)
          /\ Len(t_hist) = Len(omega_list)
          /\ \A k \in DOMAIN t_hist : t_hist[k] = log[4 * k].t

\* The pair (n, m) the greedy rule of C15 reaches after k steps from (0, 0).
RECURSIVE VisitedPair(_, _, _)
VisitedPair(omega1, omega2, k) ==
    IF k = 0 THEN <<0, 0>>
    ELSE LET p == VisitedPair(omega1, omega2, k - 1)
         IN  IF RLess(tau_n(omega1, omega2, p[1]), tau_m(omega1, omega2, p[2]))
             THEN <<p[1] + 1, p[2]>>
             ELSE <<p[1], p[2] + 1>>

\* Both candidate times of the pair are within t_max.
WithinTMax(omega1, omega2, p) ==
    RLeq(tau_n(omega1, omega2, p[1]), t_max) /\ RLeq(tau_m(omega1, omega2, p[2]), t_max)

PairDiff(omega1, omega2, p) == RAbs(RSub(tau_n(omega1, omega2, p[1]), tau_m(omega1, omega2, p[2])))

\* get_t returned after running the joint search.
SearchRan == choice.branch \in {"best_tau_m", "average"}

\* C15: the joint search starts at (0, 0), makes at most search_depth
\* steps along the greedy rule (n when tau_n(n) < tau_m(m), else m), stops
\* at the first step whose pair has a candidate time above t_max, and ends
\* with (nb, mb) the earliest visited pair of least |tau_n - tau_m| among
\* the visited pairs with both times within t_max.
C15_JointSearchKeepsBestVisitedPair ==
    SearchRan =>
        LET w1 == choice.omega1
            w2 == choice.omega2
            pair(k) == VisitedPair(w1, w2, k)
            valid == { k \in 0..choice.steps : WithinTMax(w1, w2, pair(k)) }
        IN  /\ choice.steps <= chooser.search_depth
            /\ <<choice.n, choice.m>> = pair(choice.steps)
            /\ \A k \in 0..(choice.steps - 1) : k \in valid
            /\ choice.steps < chooser.search_depth => choice.steps \notin valid
            /\ \E kb \in valid :
                  /\ <<choice.nb, choice.mb>> = pair(kb)
                  /\ \A k \in valid :
                        /\ RLeq(PairDiff(w1, w2, pair(kb)), PairDiff(w1, w2, pair(k)))
                        /\ k < kb => RLess(PairDiff(w1, w2, pair(kb)), PairDiff(w1, w2, pair(k)))

\* C15 witness: a search that stopped early, after at least two steps,
\* with a best pair other than (0, 0).
C15_Witness ==
    /\ SearchRan
    /\ 2 <= choice.steps /\ choice.steps < chooser.search_depth
    /\ <<choice.nb, choice.mb>> # <<0, 0>>

C8_DegenerateTimeInLateWindow ==
    choice.branch \notin {"none", "random", "raised"} /\ choice.omega1 = choice.omega2
        => /\ choice.branch = "degenerate"
           /\ RLeq(RMul(R(7, 10), t_max), t) /\ RLeq(t, t_max)

\* C8 witness: get_t returned from the branch of coinciding samples.
C8_Witness == pc = "chosen" /\ choice.branch = "degenerate" /\ choice.omega1 = choice.omega2

====
